---- MODULE Spec2Model ----
(***************************************************************************)
(* A model of financial_ratios.py: the ratio engine (get_financial_ratios  *)
(* and its five derivations) and the formatter                             *)
(* (format_financial_ratios_summary).                                      *)
(*                                                                         *)
(* Numbers.  Python floats are modelled as exact rationals n/d in lowest   *)
(* terms, plus the two missing-value markers the code has to deal with:    *)
(* None (a snapshot field that is absent) and NaN (the missing-value       *)
(* marker of a pandas table).  Rounding error of binary floating point is  *)
(* not modelled; comparisons, NaN propagation and the .2f conversion are.  *)
(*                                                                         *)
(* Tables.  A pandas DataFrame is a record [index, cols]: the set of row   *)
(* labels and the sequence of its columns (most recent period first), each *)
(* column a function from the row labels to cells.  A cell is a number or  *)
(* NaN.  The price history is a sequence of daily records [Close, Volume], *)
(* oldest first; the provider always delivers both columns.                *)
(***************************************************************************)
EXTENDS Integers, Sequences, FiniteSets, TLC

VARIABLES
    pc,        \* position of the caller: "start", "computed"
    ticker,    \* the symbol asked for
    source,    \* what the upstream data source holds for the symbol
    ratios,    \* what get_financial_ratios returned (NoneV when absent)
    built,     \* the report as it was when it was constructed
    other,     \* a second report a caller formats in between
    summaries  \* the texts returned so far, per report

vars == <<pc, ticker, source, ratios, built, other, summaries>>

-----------------------------------------------------------------------------
(* Bounds of the model. *)

\* how many times a caller formats reports
MaxFormats == 3
\* reporting periods a statement holds at most
MaxPeriods == 3
\* daily records beyond a full trading year
MaxExtra == 1

-----------------------------------------------------------------------------
(* Values: exact rationals, None and NaN. *)

AbsInt(i) == IF i < 0 THEN -i ELSE i

RECURSIVE GCD(_, _)
GCD(a, b) == IF b = 0 THEN a ELSE GCD(b, a % b)

NoneV == [k |-> "none", n |-> 0, d |-> 1]
NaN == [k |-> "nan", n |-> 0, d |-> 1]

\* the rational n/d (d # 0) in lowest terms with a positive denominator
Num(n, d) ==
    LET s == IF d < 0 THEN -1 ELSE 1
        g == GCD(AbsInt(n), AbsInt(d))
    IN  [k |-> "num", n |-> (s * n) \div g, d |-> (s * d) \div g]

Int2V(i) == Num(i, 1)

IsNone(v) == v.k = "none"
IsNaN(v) == v.k = "nan"
IsNum(v) == v.k = "num"

\* float arithmetic: NaN in, NaN out
Mul(a, b) == IF IsNaN(a) \/ IsNaN(b) THEN NaN ELSE Num(a.n * b.n, a.d * b.d)
Add(a, b) == IF IsNaN(a) \/ IsNaN(b) THEN NaN
             ELSE Num(a.n * b.d + b.n * a.d, a.d * b.d)
Sub(a, b) == IF IsNaN(a) \/ IsNaN(b) THEN NaN
             ELSE Num(a.n * b.d - b.n * a.d, a.d * b.d)
\* a / b; every caller has excluded b = 0
Div(a, b) == IF IsNaN(a) \/ IsNaN(b) THEN NaN ELSE Num(a.n * b.d, a.d * b.n)
AbsV(a) == IF IsNaN(a) THEN NaN ELSE Num(AbsInt(a.n), a.d)

\* Python's  v != 0 : true of NaN
Ne0(v) == ~(IsNum(v) /\ v.n = 0)
\* Python's  v > 0 : false of NaN
Gt0(v) == IsNum(v) /\ v.n > 0
\* Python's  v >= i  for a number v and an integer i: floor(v) >= i
GeInt(v, i) == IsNum(v) /\ v.n \div v.d >= i
\* Python's truth value: None and 0 are false, NaN is true
Truthy(v) == ~IsNone(v) /\ ~(IsNum(v) /\ v.n = 0)
\* Python's  a or b
Or(a, b) == IF Truthy(a) THEN a ELSE b

Hundred == Int2V(100)
One == Int2V(1)

-----------------------------------------------------------------------------
(* Dictionaries and tables. *)

EmptyDict == [key \in {} |-> NoneV]

\* dict.get(key)
Get(dict, key) == IF key \in DOMAIN dict THEN dict[key] ELSE NoneV

\* 'key' in info and info['key'] is not None
Has(info, key) == key \in DOMAIN info /\ ~IsNone(info[key])

\* DataFrame.empty
Empty(frame) == frame.index = {} \/ Len(frame.cols) = 0

\* DataFrame.iloc[:, i] for the i-th column, counted from 0
Column(frame, i) == frame.cols[i + 1]

RECURSIVE SumV(_, _, _)
\* the sum of s[lo..hi] (exact, so the order of the additions is immaterial)
SumV(s, lo, hi) ==
    IF lo > hi THEN Int2V(0)
    ELSE IF lo = hi THEN s[lo]
    ELSE LET mid == (lo + hi) \div 2
         IN  Add(SumV(s, lo, mid), SumV(s, mid + 1, hi))

Closes(hist) == [i \in 1..Len(hist) |-> hist[i].Close]
Volumes(hist) == [i \in 1..Len(hist) |-> hist[i].Volume]

\* Series.rolling(window).mean().iloc[-1]: the mean of the last `window` values
RollingMeanLast(s, window) ==
    IF Len(s) < window THEN NaN
    ELSE Div(SumV(s, Len(s) - window + 1, Len(s)), Int2V(window))

\* Series.mean()
Mean(s) == Div(SumV(s, 1, Len(s)), Int2V(Len(s)))

\* dict[key] = val
Put(dict, key, val) ==
    [x \in DOMAIN dict \cup {key} |-> IF x = key THEN val ELSE dict[x]]

-----------------------------------------------------------------------------
(* Program constants. *)

\* records needed for the one-year price change
YearRecords == 252
\* records needed for the moving averages
MaMinRecords == 200
MaShortWindow == 50
MaLongWindow == 200
Billion == 1000000000
Million == 1000000

Groups == {"price_metrics", "valuation_ratios", "profitability_ratios",
           "liquidity_ratios", "growth_rates"}

-----------------------------------------------------------------------------
(* The five derivations.  Each is the body of the function's try block;    *)
(* stock.raises holds the derivations in which a read of the data source   *)
(* (stock.info, stock.history, stock.balance_sheet, stock.income_stmt)     *)
(* raises, which the except clause turns into an empty mapping.            *)

PctChange(current, prior) == Mul(Sub(Div(current, prior), One), Hundred)

price_from_info(info) ==
    IF DOMAIN info # {}
    THEN LET m1 == Put(EmptyDict, "current_price",
                       Or(Or(Get(info, "currentPrice"), Get(info, "regularMarketPrice")),
                          Get(info, "previousClose")))
             m2 == Put(m1, "52w_high", Get(info, "fiftyTwoWeekHigh"))
             m3 == Put(m2, "52w_low", Get(info, "fiftyTwoWeekLow"))
         IN  Put(m3, "market_cap", Get(info, "marketCap"))
    ELSE EmptyDict

\* a slip: a full year is asked to be exceeded
price_change_strict(metrics, hist) ==
    LET close == Closes(hist)
        current_price == close[Len(close)]
    IN  IF Len(hist) > YearRecords /\ Gt0(close[1])
        THEN Put(metrics, "price_change_1y", PctChange(current_price, close[1]))
        ELSE metrics

price_change(metrics, hist) ==
    LET close == Closes(hist)
        current_price == close[Len(close)]
    IN  IF Len(hist) >= YearRecords /\ Gt0(close[1])
        THEN Put(metrics, "price_change_1y", PctChange(current_price, close[1]))
        ELSE metrics

\* a slip: each average is reported as soon as its own window is full
moving_averages_each(metrics, hist) ==
    LET m1 == IF Len(hist) >= MaShortWindow
              THEN Put(metrics, "ma_50", RollingMeanLast(Closes(hist), MaShortWindow))
              ELSE metrics
    IN  IF Len(hist) >= MaLongWindow
        THEN Put(m1, "ma_200", RollingMeanLast(Closes(hist), MaLongWindow))
        ELSE m1

moving_averages(metrics, hist) ==
    IF Len(hist) >= MaMinRecords
    THEN Put(Put(metrics, "ma_50", RollingMeanLast(Closes(hist), MaShortWindow)),
             "ma_200", RollingMeanLast(Closes(hist), MaLongWindow))
    ELSE metrics

price_metrics_body(stock) ==
    LET m1 == price_from_info(stock.info)
    IN  IF Len(stock.hist) > 0
        THEN Put(moving_averages(price_change(m1, stock.hist), stock.hist),
                 "avg_volume", Mean(Volumes(stock.hist)))
        ELSE m1

\* a slip: the except clause returns what the try block had filled in
calculate_price_metrics_partial(stock) ==
    IF "price_metrics" \in stock.raises THEN price_from_info(stock.info)
    ELSE price_metrics_body(stock)

calculate_price_metrics(stock) ==
    IF "price_metrics" \in stock.raises THEN EmptyDict
    ELSE price_metrics_body(stock)

\* a slip: the direct field is tested for truth, so a yield of 0 falls through
dividend_yield_truthy(ratios_, info) ==
    IF Truthy(Get(info, "dividendYield"))
    THEN Put(ratios_, "dividend_yield", Mul(info["dividendYield"], Hundred))
    ELSE IF Has(info, "trailingAnnualDividendYield")
    THEN Put(ratios_, "dividend_yield", Mul(info["trailingAnnualDividendYield"], Hundred))
    ELSE ratios_

dividend_yield(ratios_, info) ==
    IF Has(info, "dividendYield")
    THEN Put(ratios_, "dividend_yield", Mul(info["dividendYield"], Hundred))
    ELSE IF Has(info, "trailingAnnualDividendYield")
    THEN Put(ratios_, "dividend_yield", Mul(info["trailingAnnualDividendYield"], Hundred))
    ELSE ratios_

valuation_ratios_body(stock) ==
    LET info == stock.info
        v1 == Put(EmptyDict, "pe_ratio", Get(info, "trailingPE"))
        v2 == Put(v1, "forward_pe", Get(info, "forwardPE"))
        v3 == Put(v2, "pb_ratio", Get(info, "priceToBook"))
        v4 == Put(v3, "ps_ratio", Get(info, "priceToSalesTrailing12Months"))
        v5 == Put(v4, "peg_ratio", Get(info, "pegRatio"))
        v6 == Put(v5, "ev_to_ebitda", Get(info, "enterpriseToEbitda"))
    IN  dividend_yield(v6, info)

calculate_valuation_ratios(stock) ==
    IF "valuation_ratios" \in stock.raises THEN EmptyDict
    ELSE valuation_ratios_body(stock)

\* the statement-derived ratios of lines 93-122
profitability_from_statements(stock) ==
    LET balance_sheet == stock.balance_sheet
        income_stmt == stock.income_stmt
    IN  IF ~Empty(balance_sheet) /\ ~Empty(income_stmt)
        THEN LET latest_bs == Column(balance_sheet, 0)
                 latest_is == Column(income_stmt, 0)
                 p1 == IF /\ "totalStockholderEquity" \in DOMAIN latest_bs
                          /\ "netIncome" \in DOMAIN latest_is
                          /\ Ne0(latest_bs["totalStockholderEquity"])
                       THEN Put(EmptyDict, "roe",
                                Mul(Div(latest_is["netIncome"],
                                        latest_bs["totalStockholderEquity"]), Hundred))
                       ELSE EmptyDict
                 p2 == IF /\ "totalAssets" \in DOMAIN latest_bs
                          /\ "netIncome" \in DOMAIN latest_is
                          /\ Ne0(latest_bs["totalAssets"])
                       THEN Put(p1, "roa",
                                Mul(Div(latest_is["netIncome"], latest_bs["totalAssets"]),
                                    Hundred))
                       ELSE p1
                 hasRevenue == /\ "totalRevenue" \in DOMAIN latest_is
                               /\ Ne0(latest_is["totalRevenue"])
                 margin(p, key, row) ==
                     IF hasRevenue /\ row \in DOMAIN latest_is
                     THEN Put(p, key, Mul(Div(latest_is[row], latest_is["totalRevenue"]),
                                          Hundred))
                     ELSE p
             IN  margin(margin(margin(p2, "gross_margin", "grossProfit"),
                               "operating_margin", "operatingIncome"),
                        "profit_margin", "netIncome")
        ELSE EmptyDict

\* a slip: the snapshot field overrides what the statements gave
fallback_overrides(p, info, field, key) ==
    IF Has(info, field)
    THEN Put(p, key, Mul(info[field], Hundred))
    ELSE p

\* one fallback of lines 125-138
fallback(p, info, field, key) ==
    IF Has(info, field) /\ key \notin DOMAIN p
    THEN Put(p, key, Mul(info[field], Hundred))
    ELSE p

profitability_ratios_body(stock) ==
    LET info == stock.info
        p0 == profitability_from_statements(stock)
        p1 == fallback(p0, info, "returnOnEquity", "roe")
        p2 == fallback(p1, info, "returnOnAssets", "roa")
        p3 == fallback(p2, info, "grossMargins", "gross_margin")
        p4 == fallback(p3, info, "operatingMargins", "operating_margin")
    IN  fallback(p4, info, "profitMargins", "profit_margin")

calculate_profitability_ratios(stock) ==
    IF "profitability_ratios" \in stock.raises THEN EmptyDict
    ELSE profitability_ratios_body(stock)

liquidity_ratios_body(stock) ==
    LET balance_sheet == stock.balance_sheet
        income_stmt == stock.income_stmt
    IN  IF ~Empty(balance_sheet)
        THEN LET latest_bs == Column(balance_sheet, 0)
                 rows == DOMAIN latest_bs
                 l1 == IF /\ "totalCurrentAssets" \in rows
                          /\ "totalCurrentLiabilities" \in rows
                          /\ Ne0(latest_bs["totalCurrentLiabilities"])
                       THEN Put(EmptyDict, "current_ratio",
                                Div(latest_bs["totalCurrentAssets"],
                                    latest_bs["totalCurrentLiabilities"]))
                       ELSE EmptyDict
                 l2 == IF /\ "totalCurrentAssets" \in rows
                          /\ "inventory" \in rows
                          /\ "totalCurrentLiabilities" \in rows
                          /\ Ne0(latest_bs["totalCurrentLiabilities"])
                       THEN Put(l1, "quick_ratio",
                                Div(Sub(latest_bs["totalCurrentAssets"],
                                        latest_bs["inventory"]),
                                    latest_bs["totalCurrentLiabilities"]))
                       ELSE l1
                 l3 == IF /\ "totalLiabilities" \in rows
                          /\ "totalStockholderEquity" \in rows
                          /\ Ne0(latest_bs["totalStockholderEquity"])
                       THEN Put(l2, "debt_to_equity",
                                Div(latest_bs["totalLiabilities"],
                                    latest_bs["totalStockholderEquity"]))
                       ELSE l2
             IN  IF ~Empty(income_stmt)
                 THEN LET latest_is == Column(income_stmt, 0)
                      IN  IF /\ "operatingIncome" \in DOMAIN latest_is
                             /\ "interestExpense" \in DOMAIN latest_is
                             /\ Ne0(latest_is["interestExpense"])
                          THEN Put(l3, "interest_coverage",
                                   Div(latest_is["operatingIncome"],
                                       AbsV(latest_is["interestExpense"])))
                          ELSE l3
                 ELSE l3
        ELSE EmptyDict

calculate_liquidity_ratios(stock) ==
    IF "liquidity_ratios" \in stock.raises THEN EmptyDict
    ELSE liquidity_ratios_body(stock)

\* a slip: the later rates are nested under the revenue growth
growth_nested(g, current_year, prev_year, row, key) ==
    IF /\ row \in DOMAIN current_year
       /\ row \in DOMAIN prev_year
       /\ Ne0(prev_year[row])
       /\ (row = "totalRevenue" \/ "revenue_growth" \in DOMAIN g)
    THEN Put(g, key, PctChange(current_year[row], prev_year[row]))
    ELSE g

\* one growth rate of lines 201-220
growth(g, current_year, prev_year, row, key) ==
    IF /\ row \in DOMAIN current_year
       /\ row \in DOMAIN prev_year
       /\ Ne0(prev_year[row])
    THEN Put(g, key, PctChange(current_year[row], prev_year[row]))
    ELSE g

growth_rates_body(stock) ==
    LET income_stmt == stock.income_stmt
    IN  IF ~Empty(income_stmt) /\ Len(income_stmt.cols) >= 2
        THEN LET current_year == Column(income_stmt, 0)
                 prev_year == Column(income_stmt, 1)
                 g1 == growth(EmptyDict, current_year, prev_year,
                              "totalRevenue", "revenue_growth")
                 g2 == growth(g1, current_year, prev_year, "netIncome", "earnings_growth")
             IN  growth(g2, current_year, prev_year, "ebitda", "ebitda_growth")
        ELSE EmptyDict

calculate_growth_rates(stock) ==
    IF "growth_rates" \in stock.raises THEN EmptyDict
    ELSE growth_rates_body(stock)

-----------------------------------------------------------------------------
(* The engine. *)

\* yf.Ticker(ticker) inside try/except: the stock handle, or None when the
\* constructor raises.  The constructor reads nothing from the data source.
get_stock_data(tick, src) ==
    IF "Ticker" \in src.raises THEN NoneV ELSE src

get_financial_ratios(tick, src) ==
    LET stock == get_stock_data(tick, src)
    IN  IF stock = NoneV THEN NoneV
        ELSE [ticker |-> tick,
              price_metrics |-> calculate_price_metrics(stock),
              valuation_ratios |-> calculate_valuation_ratios(stock),
              profitability_ratios |-> calculate_profitability_ratios(stock),
              liquidity_ratios |-> calculate_liquidity_ratios(stock),
              growth_rates |-> calculate_growth_rates(stock)]

-----------------------------------------------------------------------------
(* The formatter. *)

\* round(|v| * 100), ties to even, as the .2f conversion rounds
Cents(v) ==
    LET a == AbsInt(v.n) * 100
        q == a \div v.d
        r == a % v.d
    IN  IF 2 * r > v.d \/ (2 * r = v.d /\ q % 2 = 1) THEN q + 1 ELSE q

\* f"{value:.2f}"
Fixed2(v) ==
    IF IsNaN(v) THEN "nan"
    ELSE LET c == Cents(v)
             frac == c % 100
         IN  (IF v.n < 0 THEN "-" ELSE "") \o ToString(c \div 100) \o "."
             \o (IF frac < 10 THEN "0" ELSE "") \o ToString(frac)

\* a slip: NaN is not tested for
is_missing_none_only(value) == IsNone(value)

\* value is None or (isinstance(value, float) and np.isnan(value))
is_missing(value) == IsNone(value) \/ IsNaN(value)

\* prefix is "$" or ""
format_value(value, is_percentage, prefix) ==
    IF is_missing(value) THEN "N/A"
    ELSE IF is_percentage THEN Fixed2(value) \o "%"
    ELSE IF prefix = "$" /\ GeInt(value, Billion)
    THEN prefix \o Fixed2(Div(value, Int2V(Billion))) \o "B"
    ELSE IF prefix = "$" /\ GeInt(value, Million)
    THEN prefix \o Fixed2(Div(value, Int2V(Million))) \o "M"
    ELSE IF prefix = "$" THEN prefix \o Fixed2(value)
    ELSE Fixed2(value)

Rule == "====================================================="
Dash == "-----------------------------------------------------"
NoData == <<"Could not generate summary. No data available.">>

range_52w(price_metrics) ==
    LET low_52w == format_value(Get(price_metrics, "52w_low"), FALSE, "$")
        high_52w == format_value(Get(price_metrics, "52w_high"), FALSE, "$")
    IN  IF low_52w # "N/A" /\ high_52w # "N/A"
        THEN "52-Week Range: " \o low_52w \o " - " \o high_52w
        ELSE "52-Week Range: N/A"

\* the lines of the summary; the text returned is these lines joined by "\n"
\* (no line holds a newline, so the lines determine the text and the text
\* the lines)
format_financial_ratios_summary(report) ==
    IF report = NoneV THEN NoData
    ELSE LET price_metrics == report.price_metrics
             valuation_ratios == report.valuation_ratios
             profitability_ratios == report.profitability_ratios
             liquidity_ratios == report.liquidity_ratios
             growth_rates == report.growth_rates
             money(d, key) == format_value(Get(d, key), FALSE, "$")
             plain(d, key) == format_value(Get(d, key), FALSE, "")
             pct(d, key) == format_value(Get(d, key), TRUE, "")
             pctMoney(d, key) == format_value(Get(d, key), TRUE, "$")
         IN  << Rule,
                "FINANCIAL RATIOS SUMMARY FOR " \o report.ticker,
                Rule,
                "",
                "PRICE METRICS:",
                Dash,
                "Current Price: " \o money(price_metrics, "current_price"),
                range_52w(price_metrics),
                "Price Change (1Y): " \o pctMoney(price_metrics, "price_change_1y"),
                "Market Cap: " \o money(price_metrics, "market_cap"),
                "",
                "VALUATION RATIOS:",
                Dash,
                "P/E Ratio: " \o plain(valuation_ratios, "pe_ratio"),
                "Forward P/E: " \o plain(valuation_ratios, "forward_pe"),
                "P/B Ratio: " \o plain(valuation_ratios, "pb_ratio"),
                "P/S Ratio: " \o plain(valuation_ratios, "ps_ratio"),
                "PEG Ratio: " \o plain(valuation_ratios, "peg_ratio"),
                "EV/EBITDA: " \o plain(valuation_ratios, "ev_to_ebitda"),
                "Dividend Yield: " \o pct(valuation_ratios, "dividend_yield"),
                "",
                "PROFITABILITY RATIOS:",
                Dash,
                "Return on Equity (ROE): " \o pct(profitability_ratios, "roe"),
                "Return on Assets (ROA): " \o pct(profitability_ratios, "roa"),
                "Gross Margin: " \o pct(profitability_ratios, "gross_margin"),
                "Operating Margin: " \o pct(profitability_ratios, "operating_margin"),
                "Profit Margin: " \o pct(profitability_ratios, "profit_margin"),
                "",
                "LIQUIDITY & SOLVENCY:",
                Dash,
                "Current Ratio: " \o plain(liquidity_ratios, "current_ratio"),
                "Quick Ratio: " \o plain(liquidity_ratios, "quick_ratio"),
                "Debt-to-Equity: " \o plain(liquidity_ratios, "debt_to_equity"),
                "Interest Coverage: " \o plain(liquidity_ratios, "interest_coverage"),
                "",
                "GROWTH RATES (YoY):",
                Dash,
                "Revenue Growth: " \o pct(growth_rates, "revenue_growth"),
                "Earnings Growth: " \o pct(growth_rates, "earnings_growth"),
                "EBITDA Growth: " \o pct(growth_rates, "ebitda_growth"),
                "",
                Rule >>

\* a slip: the current price is popped from the report instead of read
after_format_pops(report) ==
    IF report = NoneV THEN report
    ELSE [report EXCEPT !.price_metrics =
             [key \in DOMAIN @ \ {"current_price"} |-> @[key]]]

\* the report after a call of format_financial_ratios_summary: the function
\* only reads it (ratios[...], .get), it assigns to no key
after_format(report) == report

-----------------------------------------------------------------------------
(* What the data source may hold: the inputs the model draws from. *)

\* a table with the given row labels and number of periods: `cur` fills the
\* most recent period, `prev` every earlier one
Frame(index, ncols, cur, prev) ==
    [index |-> index,
     cols |-> [i \in 1..ncols |-> [r \in index |-> IF i = 1 THEN cur[r] ELSE prev[r]]]]

\* the tables over some of the rows of `opts`, each cell of the most recent
\* period drawn from opts[r].cur and of the earlier ones from opts[r].prev
Frames(opts, periods) ==
    UNION { UNION { { Frame(idx, n, cur, prev) :
                        cur \in { f \in [idx -> UNION { opts[r].cur : r \in idx }] :
                                    \A r \in idx : f[r] \in opts[r].cur },
                        prev \in { f \in [idx -> UNION { opts[r].prev : r \in idx }] :
                                     \A r \in idx : f[r] \in opts[r].prev } } :
                    n \in periods } :
            idx \in SUBSET DOMAIN opts }

NoFrame == [index |-> {}, cols |-> << >>]

\* a price history of `len` days
History(len, first, last, mid, volume) ==
    [i \in 1..len |->
        [Close |-> IF i = 1 THEN first ELSE IF i = len THEN last ELSE mid,
         Volume |-> volume]]

\* the mappings that give each field of `opts` one of its values or leave it out;
\* the value NoneV is the field present and None
Infos(opts) ==
    UNION { { f \in [flds -> UNION { opts[x] : x \in flds }] :
                \A x \in flds : f[x] \in opts[x] } :
            flds \in SUBSET DOMAIN opts }

Source(info, hist, balance_sheet, income_stmt, raises) ==
    [info |-> info, hist |-> hist, balance_sheet |-> balance_sheet,
     income_stmt |-> income_stmt, raises |-> raises]

EmptyReport(tick) ==
    [ticker |-> tick, price_metrics |-> EmptyDict, valuation_ratios |-> EmptyDict,
     profitability_ratios |-> EmptyDict, liquidity_ratios |-> EmptyDict,
     growth_rates |-> EmptyDict]

\* a report whose values are None or NaN
BlankReport(tick) ==
    [ticker |-> tick,
     price_metrics |-> ("current_price" :> NoneV @@ "52w_high" :> Int2V(12)
                        @@ "52w_low" :> NoneV @@ "market_cap" :> NaN),
     valuation_ratios |-> ("pe_ratio" :> NoneV @@ "dividend_yield" :> NaN),
     profitability_ratios |-> ("roe" :> NaN),
     liquidity_ratios |-> ("current_ratio" :> NaN),
     growth_rates |-> ("revenue_growth" :> NaN)]

Scenario(tick, src, oth) == [ticker |-> tick, source |-> src, other |-> oth]

-----------------------------------------------------------------------------
(* The operations. *)

InitFrom(scenarios) ==
    \E sc \in scenarios :
        /\ pc = "start"
        /\ ticker = sc.ticker
        /\ source = sc.source
        /\ ratios = NoneV
        /\ other = sc.other
        /\ built = [ratios |-> NoneV, other |-> sc.other]
        /\ summaries = [ratios |-> << >>, other |-> << >>]

GetFinancialRatios ==
    /\ pc = "start"
    /\ ratios' = get_financial_ratios(ticker, source)
    /\ built' = [built EXCEPT !.ratios = ratios']
    /\ pc' = "computed"
    /\ UNCHANGED <<ticker, source, other, summaries>>

Formats == Len(summaries.ratios) + Len(summaries.other)

\* summary = format_financial_ratios_summary(ratios)
FormatRatios ==
    /\ pc = "computed"
    /\ Formats < MaxFormats
    /\ summaries' = [summaries EXCEPT
                        !.ratios = Append(@, format_financial_ratios_summary(ratios))]
    /\ ratios' = after_format(ratios)
    /\ UNCHANGED <<pc, ticker, source, built, other>>

\* the same call on another report
FormatOther ==
    /\ pc = "computed"
    /\ Formats < MaxFormats
    /\ summaries' = [summaries EXCEPT
                        !.other = Append(@, format_financial_ratios_summary(other))]
    /\ other' = after_format(other)
    /\ UNCHANGED <<pc, ticker, source, built, ratios>>

Next == GetFinancialRatios \/ FormatRatios \/ FormatOther

-----------------------------------------------------------------------------
(* The scenarios each specification starts from. *)

Cell(values) == [cur |-> values, prev |-> {One}]

BsRows ==
    "totalStockholderEquity" :> Cell({Int2V(0), NaN, Int2V(2000)})
    @@ "totalAssets" :> Cell({Int2V(0), NaN, Int2V(5000)})

IsRows ==
    "netIncome" :> Cell({Int2V(300)})
    @@ "totalRevenue" :> Cell({Int2V(0), NaN, Int2V(1000)})
    @@ "grossProfit" :> Cell({Int2V(400)})
    @@ "operatingIncome" :> Cell({Int2V(250)})

\* a table that has its rows and no reporting period
NoPeriods(rows) == Frame(rows, 0, << >>, << >>)

OtherMargins ==
    "returnOnAssets" :> Num(8, 100) @@ "operatingMargins" :> Num(3, 10)
    @@ "profitMargins" :> Num(1, 5)

ProfitInfos ==
    { a @@ b : a \in Infos("returnOnEquity" :> {NoneV, Num(15, 100)}
                           @@ "grossMargins" :> {NoneV, Num(1, 2)}),
               b \in {EmptyDict, OtherMargins} }

ProfitScenarios ==
    { Scenario("AAPL", Source(info, << >>, bs, is, {}), EmptyReport("MSFT")) :
        info \in ProfitInfos,
        bs \in Frames(BsRows, {1}) \cup {NoPeriods(DOMAIN BsRows)},
        is \in Frames(IsRows, {1}) \cup {NoPeriods(DOMAIN IsRows)} }

GrowthRows ==
    "totalRevenue" :> [cur |-> {Int2V(1200)}, prev |-> {Int2V(1000), Int2V(0), NaN}]
    @@ "netIncome" :> [cur |-> {Int2V(330), NaN},
                       prev |-> {Int2V(300), Int2V(0), Int2V(-100)}]
    @@ "ebitda" :> [cur |-> {Int2V(500)}, prev |-> {Int2V(400), Int2V(0)}]

BsSample ==
    Frame({"totalStockholderEquity", "totalAssets", "totalCurrentAssets",
           "totalCurrentLiabilities", "inventory", "totalLiabilities"}, 2,
          "totalStockholderEquity" :> Int2V(2000) @@ "totalAssets" :> Int2V(5000)
          @@ "totalCurrentAssets" :> Int2V(900) @@ "totalCurrentLiabilities" :> Int2V(600)
          @@ "inventory" :> Int2V(150) @@ "totalLiabilities" :> Int2V(3000),
          "totalStockholderEquity" :> Int2V(1800) @@ "totalAssets" :> Int2V(4600)
          @@ "totalCurrentAssets" :> Int2V(800) @@ "totalCurrentLiabilities" :> Int2V(500)
          @@ "inventory" :> Int2V(100) @@ "totalLiabilities" :> Int2V(2800))

GrowthScenarios ==
    { Scenario("AAPL", Source(EmptyDict, << >>, BsSample, is, {}), EmptyReport("MSFT")) :
        is \in Frames(GrowthRows, 0..MaxPeriods) }

HistoryLengths ==
    {0, 1, MaMinRecords - 1, MaMinRecords, YearRecords - 1, YearRecords}
    \cup { YearRecords + i : i \in 1..MaxExtra }

PriceInfo ==
    "currentPrice" :> Num(301, 2) @@ "regularMarketPrice" :> Int2V(150)
    @@ "previousClose" :> Int2V(149) @@ "fiftyTwoWeekHigh" :> Int2V(180)
    @@ "fiftyTwoWeekLow" :> Int2V(95) @@ "marketCap" :> Int2V(2000000000)

PriceScenarios ==
    { Scenario("AAPL",
               Source(info, History(len, first, last, Int2V(120), Int2V(1000000)),
                      NoFrame, NoFrame, {}),
               EmptyReport("MSFT")) :
        info \in {EmptyDict, PriceInfo},
        len \in HistoryLengths,
        first \in {Int2V(100), Int2V(0), NaN},
        last \in {Int2V(150), Int2V(80), NaN} }

CopiedRatios ==
    "forwardPE" :> Int2V(22) @@ "priceToBook" :> Num(7, 2)
    @@ "priceToSalesTrailing12Months" :> Num(61, 10) @@ "pegRatio" :> Num(-3, 2)
    @@ "enterpriseToEbitda" :> Num(1523, 100)

ValuationInfos ==
    { a @@ b : a \in Infos("dividendYield" :> {NoneV, Int2V(0), Num(23, 1000)}
                           @@ "trailingAnnualDividendYield" :> {NoneV, Num(31, 1000)}
                           @@ "trailingPE" :> {NoneV, Num(51, 2)}
                           @@ "marketCap" :> {Int2V(3500000), Int2V(999)}),
               b \in {EmptyDict, CopiedRatios} }

ValuationScenarios ==
    { Scenario("AAPL", Source(info, << >>, NoFrame, NoFrame, {}), EmptyReport("MSFT")) :
        info \in ValuationInfos }

\* a symbol the data source knows everything about
FullSource ==
    Source(PriceInfo @@ CopiedRatios @@ OtherMargins
           @@ "dividendYield" :> Num(23, 1000) @@ "trailingPE" :> Num(51, 2)
           @@ "returnOnEquity" :> Num(15, 100) @@ "grossMargins" :> Num(1, 2),
           History(YearRecords, Int2V(100), Int2V(150), Int2V(120), Int2V(1000000)),
           BsSample,
           Frame({"netIncome", "totalRevenue", "grossProfit", "operatingIncome",
                  "interestExpense", "ebitda"}, 2,
                 "netIncome" :> Int2V(330) @@ "totalRevenue" :> Int2V(1200)
                 @@ "grossProfit" :> Int2V(480) @@ "operatingIncome" :> Int2V(250)
                 @@ "interestExpense" :> Int2V(-40) @@ "ebitda" :> Int2V(500),
                 "netIncome" :> Int2V(300) @@ "totalRevenue" :> Int2V(1000)
                 @@ "grossProfit" :> Int2V(400) @@ "operatingIncome" :> Int2V(200)
                 @@ "interestExpense" :> Int2V(-35) @@ "ebitda" :> Int2V(400)),
           {})

\* a symbol the data source has nothing for
NothingSource == Source(EmptyDict, << >>, NoFrame, NoFrame, {})

\* the reads that raise: any of the derivations' reads (the source is
\* unreachable for that call) and the construction of the handle
FaultScenarios ==
    { Scenario(tick, [src EXCEPT !.raises = raises], oth) :
        tick \in {"AAPL", "BHP.AX"},
        src \in {FullSource, NothingSource},
        raises \in SUBSET (Groups \cup {"Ticker"}),
        oth \in {EmptyReport("MSFT"), BlankReport("MSFT")} }

LiquidityBsRows ==
    "totalCurrentAssets" :> Cell({Int2V(900)})
    @@ "totalCurrentLiabilities" :> Cell({Int2V(0), NaN, Int2V(600)})
    @@ "inventory" :> Cell({Int2V(150)})
    @@ "totalLiabilities" :> Cell({Int2V(3000)})
    @@ "totalStockholderEquity" :> Cell({Int2V(0), Int2V(2000)})

LiquidityIsRows ==
    "operatingIncome" :> Cell({Int2V(250)})
    @@ "interestExpense" :> Cell({Int2V(0), Int2V(-40)})

LiquidityScenarios ==
    { Scenario("AAPL", Source(EmptyDict, << >>, bs, is, {}), EmptyReport("MSFT")) :
        bs \in Frames(LiquidityBsRows, {1}) \cup {NoPeriods(DOMAIN LiquidityBsRows)},
        is \in Frames(LiquidityIsRows, {1}) \cup {NoPeriods(DOMAIN LiquidityIsRows)} }

\* the snapshot's price fields, each missing, None or a number
QuoteInfos ==
    Infos("currentPrice" :> {NoneV, Int2V(0), Num(301, 2)}
          @@ "regularMarketPrice" :> {NoneV, Int2V(150)}
          @@ "previousClose" :> {NoneV, Int2V(0), Int2V(149)}
          @@ "marketCap" :> {Int2V(3500000)})

QuoteScenarios ==
    { Scenario("AAPL", Source(info, << >>, NoFrame, NoFrame, {}), EmptyReport("MSFT")) :
        info \in QuoteInfos }

InitPrice == InitFrom(PriceScenarios)
InitQuote == InitFrom(QuoteScenarios)
InitLiquidity == InitFrom(LiquidityScenarios)
InitValuation == InitFrom(ValuationScenarios)
InitProfit == InitFrom(ProfitScenarios)
InitGrowth == InitFrom(GrowthScenarios)
InitFault == InitFrom(FaultScenarios)
Init ==
    InitFrom(PriceScenarios \cup ValuationScenarios \cup ProfitScenarios
             \cup GrowthScenarios \cup FaultScenarios \cup LiquidityScenarios
             \cup QuoteScenarios)

SpecPrice == InitPrice /\ [][Next]_vars
SpecValuation == InitValuation /\ [][Next]_vars
SpecProfit == InitProfit /\ [][Next]_vars
SpecGrowth == InitGrowth /\ [][Next]_vars
SpecFault == InitFault /\ [][Next]_vars
SpecLiquidity == InitLiquidity /\ [][Next]_vars
SpecQuote == InitQuote /\ [][Next]_vars
Spec == Init /\ [][Next]_vars

-----------------------------------------------------------------------------
(* The claims. *)

Computed == pc = "computed" /\ ratios # NoneV

\* the metrics that are the result of a division
DividingKeys ==
    {"roe", "roa", "gross_margin", "operating_margin", "profit_margin",
     "current_ratio", "quick_ratio", "debt_to_equity", "interest_coverage",
     "revenue_growth", "earnings_growth", "ebitda_growth", "price_change_1y"}

\* C1: a ratio whose denominator is zero or absent (a missing row, or a row
\* holding the missing-value marker) is omitted, so no reported dividing
\* metric is ever an undefined (NaN) value.
C1_NoUndefinedMetric ==
    Computed =>
        \A g \in Groups :
            \A key \in DividingKeys \cap DOMAIN ratios[g] : ~IsNaN(ratios[g][key])

\* every read of the data source raises
Unreachable(src) == Groups \subseteq src.raises

\* the data source has nothing for the symbol
HasNothing(src) ==
    /\ src.info = EmptyDict
    /\ src.hist = << >>
    /\ Empty(src.balance_sheet)
    /\ Empty(src.income_stmt)

\* C2: get_financial_ratios returns None whenever the data source is
\* unreachable or has nothing for the symbol; a report is returned only when
\* the source had data.
C2_AbsentWithoutData ==
    pc = "computed" =>
        ((Unreachable(source) \/ HasNothing(source)) => ratios = NoneV)

\* C3: whatever derivations fail, the report holds the symbol and the five
\* groups, a failed group is the empty mapping and every other group holds
\* what it holds when nothing fails.
C3_FailureIsolation ==
    (pc = "computed" /\ "Ticker" \notin source.raises) =>
        LET clean == get_financial_ratios(ticker, [source EXCEPT !.raises = {}])
        IN  /\ ratios # NoneV
            /\ DOMAIN ratios = Groups \cup {"ticker"}
            /\ ratios.ticker = ticker
            /\ \A g \in Groups :
                   ratios[g] = IF g \in source.raises THEN EmptyDict ELSE clean[g]

\* the price and growth derivations failed, the other three delivered
C3_Witness ==
    /\ pc = "computed"
    /\ source.raises = {"price_metrics", "growth_rates"}
    /\ ratios # NoneV
    /\ ratios.price_metrics = EmptyDict
    /\ ratios.growth_rates = EmptyDict
    /\ Get(ratios.valuation_ratios, "dividend_yield") = Num(23, 10)
    /\ Get(ratios.profitability_ratios, "gross_margin") = Int2V(40)
    /\ Get(ratios.liquidity_ratios, "current_ratio") = Num(3, 2)

\* v = num / den * 100, in float arithmetic (NaN when an operand is NaN)
IsPctOf(v, num, den) ==
    IF IsNaN(num) \/ IsNaN(den) THEN IsNaN(v)
    ELSE IsNum(v) /\ v.n * den.n * num.d = 100 * num.n * v.d * den.d

\* v = x * 100
IsTimes100(v, x) ==
    IF IsNaN(x) THEN IsNaN(v) ELSE IsNum(v) /\ v.n * x.d = 100 * x.n * v.d

\* v = (current / prior - 1) * 100
IsPctChange(v, current, prior) ==
    IF IsNaN(current) \/ IsNaN(prior) THEN IsNaN(v)
    ELSE IsNum(v) /\ (v.n + 100 * v.d) * prior.n * current.d
                     = 100 * current.n * v.d * prior.d

\* the line item is present in the most recent period of the table
InLatest(frame, row) == Len(frame.cols) >= 1 /\ row \in frame.index

ProfitabilityMetrics ==
    { [key |-> "roe", num |-> "netIncome", table |-> "balance_sheet",
       den |-> "totalStockholderEquity", field |-> "returnOnEquity"],
      [key |-> "roa", num |-> "netIncome", table |-> "balance_sheet",
       den |-> "totalAssets", field |-> "returnOnAssets"],
      [key |-> "gross_margin", num |-> "grossProfit", table |-> "income_stmt",
       den |-> "totalRevenue", field |-> "grossMargins"],
      [key |-> "operating_margin", num |-> "operatingIncome", table |-> "income_stmt",
       den |-> "totalRevenue", field |-> "operatingMargins"],
      [key |-> "profit_margin", num |-> "netIncome", table |-> "income_stmt",
       den |-> "totalRevenue", field |-> "profitMargins"] }

\* the line items of the metric's formula are there, the denominator not zero
FromStatements(m) ==
    /\ InLatest(source.income_stmt, m.num)
    /\ InLatest(source[m.table], m.den)
    /\ Ne0(Column(source[m.table], 0)[m.den])

\* first match wins: the statements (when `gate` lets them), else the
\* snapshot field, else nothing
Precedence(m, gate) ==
    LET p == ratios.profitability_ratios
    IN  IF gate /\ FromStatements(m)
        THEN /\ m.key \in DOMAIN p
             /\ IsPctOf(p[m.key], Column(source.income_stmt, 0)[m.num],
                        Column(source[m.table], 0)[m.den])
        ELSE IF Has(source.info, m.field)
        THEN m.key \in DOMAIN p /\ IsTimes100(p[m.key], source.info[m.field])
        ELSE m.key \notin DOMAIN p

\* C4 as stated: each profitability metric is the statement-derived value
\* whenever the line items of its formula are present in the most recent
\* period with a nonzero denominator, else the snapshot field x 100, else
\* omitted.
C4_StatementsFirst ==
    Computed => \A m \in ProfitabilityMetrics : Precedence(m, TRUE)

\* C4 (amended): the same precedence, the statements being used only when
\* both the balance sheet and the income statement are non-empty.
C4_StatementsFirstWhenBothTables ==
    Computed =>
        \A m \in ProfitabilityMetrics :
            Precedence(m, ~Empty(source.balance_sheet) /\ ~Empty(source.income_stmt))

\* no equity row, a snapshot ROE of 0.15: roe = 15; and the gross margin of
\* the statements (40) is reported although the snapshot holds 0.5
C4_Witness ==
    /\ Computed
    /\ ~InLatest(source.balance_sheet, "totalStockholderEquity")
    /\ Get(source.info, "returnOnEquity") = Num(15, 100)
    /\ Get(ratios.profitability_ratios, "roe") = Int2V(15)
    /\ Get(source.info, "grossMargins") = Num(1, 2)
    /\ Get(ratios.profitability_ratios, "gross_margin") = Int2V(40)

\* C5: ma_50 and ma_200 are both present exactly when the price history has
\* at least 200 daily records, and never one without the other.
C5_MovingAverages ==
    Computed =>
        LET pm == ratios.price_metrics
        IN  /\ ("ma_50" \in DOMAIN pm) = (Len(source.hist) >= 200)
            /\ ("ma_200" \in DOMAIN pm) = (Len(source.hist) >= 200)

\* exactly 200 records: both averages, of the last 50 and of all 200 closes
\* (one close of 100, 198 of 120, one of 150), and no one-year change
C5_Witness ==
    /\ Computed
    /\ Len(source.hist) = 200
    /\ source.hist[1].Close = Int2V(100)
    /\ source.hist[200].Close = Int2V(150)
    /\ Get(ratios.price_metrics, "ma_50") = Num(49 * 120 + 150, 50)
    /\ Get(ratios.price_metrics, "ma_200") = Num(100 + 198 * 120 + 150, 200)
    /\ "price_change_1y" \notin DOMAIN ratios.price_metrics

\* C6: price_change_1y is computed only with at least 252 daily records, is
\* then (last close / first close - 1) x 100, is 50 for 252 closes from 100
\* to 150, and is omitted with fewer than 252 records.
C6_PriceChange ==
    Computed =>
        LET pm == ratios.price_metrics
            hist == source.hist
        IN  /\ "price_change_1y" \in DOMAIN pm =>
                   /\ Len(hist) >= 252
                   /\ IsPctChange(pm["price_change_1y"], hist[Len(hist)].Close,
                                  hist[1].Close)
            /\ Len(hist) < 252 => "price_change_1y" \notin DOMAIN pm
            /\ (/\ Len(hist) = 252
                /\ hist[1].Close = Int2V(100)
                /\ hist[252].Close = Int2V(150)) =>
                   Get(pm, "price_change_1y") = Int2V(50)

\* 252 closes, the first 100 and the last 150: a change of 50
C6_Witness ==
    /\ Computed
    /\ Len(source.hist) = 252
    /\ source.hist[1].Close = Int2V(100)
    /\ source.hist[252].Close = Int2V(150)
    /\ Get(ratios.price_metrics, "price_change_1y") = Int2V(50)

GrowthMetrics ==
    { [key |-> "revenue_growth", row |-> "totalRevenue"],
      [key |-> "earnings_growth", row |-> "netIncome"],
      [key |-> "ebitda_growth", row |-> "ebitda"] }

\* C7: with fewer than 2 periods the growth group is empty; with 2 or more
\* each rate is there exactly when its line item is present in both periods
\* and the prior value is not zero, whatever the other line items are, and
\* is (current / prior - 1) x 100 (1200 after 1000 gives 20).
C7_GrowthRates ==
    Computed =>
        LET g == ratios.growth_rates
            is == source.income_stmt
        IN  IF Len(is.cols) < 2 THEN g = EmptyDict
            ELSE /\ DOMAIN g \subseteq { m.key : m \in GrowthMetrics }
                 /\ \A m \in GrowthMetrics :
                        LET current == is.cols[1]
                            prior == is.cols[2]
                        IN  IF m.row \in is.index /\ Ne0(prior[m.row])
                            THEN /\ m.key \in DOMAIN g
                                 /\ IsPctChange(g[m.key], current[m.row], prior[m.row])
                            ELSE m.key \notin DOMAIN g
                 /\ (/\ "totalRevenue" \in is.index
                     /\ is.cols[1]["totalRevenue"] = Int2V(1200)
                     /\ is.cols[2]["totalRevenue"] = Int2V(1000)) =>
                        Get(g, "revenue_growth") = Int2V(20)

\* revenue had a prior of 0 and is omitted, EBITDA is missing, and the
\* earnings growth from 300 to 330 is reported all the same
C7_Witness ==
    /\ Computed
    /\ Len(source.income_stmt.cols) >= 2
    /\ source.income_stmt.index = {"totalRevenue", "netIncome"}
    /\ source.income_stmt.cols[2]["totalRevenue"] = Int2V(0)
    /\ DOMAIN ratios.growth_rates = {"earnings_growth"}
    /\ ratios.growth_rates["earnings_growth"] = Int2V(10)

\* C8: dividend_yield is the direct field x 100 when that field is present
\* and not None (0.023 gives 2.30, and 0 gives 0), else the trailing field
\* x 100 when that is present and not None, else omitted.
C8_DividendYield ==
    Computed =>
        LET v == ratios.valuation_ratios
            info == source.info
        IN  /\ IF "dividendYield" \in DOMAIN info /\ info["dividendYield"] # NoneV
               THEN "dividend_yield" \in DOMAIN v
                    /\ IsTimes100(v["dividend_yield"], info["dividendYield"])
               ELSE IF /\ "trailingAnnualDividendYield" \in DOMAIN info
                       /\ info["trailingAnnualDividendYield"] # NoneV
               THEN "dividend_yield" \in DOMAIN v
                    /\ IsTimes100(v["dividend_yield"], info["trailingAnnualDividendYield"])
               ELSE "dividend_yield" \notin DOMAIN v
            /\ Get(info, "dividendYield") = Num(23, 1000) =>
                   /\ v["dividend_yield"] = Num(230, 100)
                   /\ \A i \in 1..Len(summaries.ratios) :
                          summaries.ratios[i][20] = "Dividend Yield: 2.30%"

\* a direct yield of 0 beside a trailing yield of 0.031: 0 is reported
C8_Witness ==
    /\ Computed
    /\ Get(source.info, "dividendYield") = Int2V(0)
    /\ Get(source.info, "trailingAnnualDividendYield") = Num(31, 1000)
    /\ Get(ratios.valuation_ratios, "dividend_yield") = Int2V(0)
    /\ Len(summaries.ratios) > 0
    /\ summaries.ratios[1][20] = "Dividend Yield: 0.00%"

\* the lines that are the same in every summary, by position
FixedLines ==
    [i \in {1, 3, 43} |-> Rule]
    @@ [i \in {6, 13, 23, 31, 38} |-> Dash]
    @@ [i \in {4, 11, 21, 29, 36, 42} |-> ""]
    @@ (5 :> "PRICE METRICS:" @@ 12 :> "VALUATION RATIOS:"
        @@ 22 :> "PROFITABILITY RATIOS:" @@ 30 :> "LIQUIDITY & SOLVENCY:"
        @@ 37 :> "GROWTH RATES (YoY):")

Line(pos, label, group, key) ==
    [pos |-> pos, label |-> label, group |-> group, key |-> key]

\* the metric lines, by position
MetricLines ==
    { Line(7, "Current Price: ", "price_metrics", "current_price"),
      Line(9, "Price Change (1Y): ", "price_metrics", "price_change_1y"),
      Line(10, "Market Cap: ", "price_metrics", "market_cap"),
      Line(14, "P/E Ratio: ", "valuation_ratios", "pe_ratio"),
      Line(15, "Forward P/E: ", "valuation_ratios", "forward_pe"),
      Line(16, "P/B Ratio: ", "valuation_ratios", "pb_ratio"),
      Line(17, "P/S Ratio: ", "valuation_ratios", "ps_ratio"),
      Line(18, "PEG Ratio: ", "valuation_ratios", "peg_ratio"),
      Line(19, "EV/EBITDA: ", "valuation_ratios", "ev_to_ebitda"),
      Line(20, "Dividend Yield: ", "valuation_ratios", "dividend_yield"),
      Line(24, "Return on Equity (ROE): ", "profitability_ratios", "roe"),
      Line(25, "Return on Assets (ROA): ", "profitability_ratios", "roa"),
      Line(26, "Gross Margin: ", "profitability_ratios", "gross_margin"),
      Line(27, "Operating Margin: ", "profitability_ratios", "operating_margin"),
      Line(28, "Profit Margin: ", "profitability_ratios", "profit_margin"),
      Line(32, "Current Ratio: ", "liquidity_ratios", "current_ratio"),
      Line(33, "Quick Ratio: ", "liquidity_ratios", "quick_ratio"),
      Line(34, "Debt-to-Equity: ", "liquidity_ratios", "debt_to_equity"),
      Line(35, "Interest Coverage: ", "liquidity_ratios", "interest_coverage"),
      Line(39, "Revenue Growth: ", "growth_rates", "revenue_growth"),
      Line(40, "Earnings Growth: ", "growth_rates", "earnings_growth"),
      Line(41, "EBITDA Growth: ", "growth_rates", "ebitda_growth") }

\* the key is omitted, or its value is None or NaN
Absent(dict, key) == key \notin DOMAIN dict \/ dict[key] \in {NoneV, NaN}

\* the text is a well-formed summary of the report
WellFormed(text, report) ==
    /\ Len(text) = 43
    /\ \A i \in DOMAIN FixedLines : text[i] = FixedLines[i]
    /\ text[2] = "FINANCIAL RATIOS SUMMARY FOR " \o report.ticker
    /\ \A l \in MetricLines :
           IF Absent(report[l.group], l.key)
           THEN text[l.pos] = l.label \o "N/A"
           ELSE /\ text[l.pos] # l.label \o "N/A"
                /\ \E is_percentage \in BOOLEAN, prefix \in {"$", ""} :
                       text[l.pos] = l.label \o format_value(report[l.group][l.key],
                                                            is_percentage, prefix)
    /\ (Absent(report.price_metrics, "52w_high")
        \/ Absent(report.price_metrics, "52w_low")) =>
           text[8] = "52-Week Range: N/A"
    /\ ~(Absent(report.price_metrics, "52w_high")
         \/ Absent(report.price_metrics, "52w_low")) =>
           text[8] # "52-Week Range: N/A"

\* C9: every report is rendered with every header and metric line in the
\* same fixed order, a metric that is omitted or absent as "N/A", and the
\* 52-week range as "N/A" when its high or its low is absent.
C9_NotAvailable ==
    /\ Computed => \A i \in 1..Len(summaries.ratios) :
                       WellFormed(summaries.ratios[i], built.ratios)
    /\ \A i \in 1..Len(summaries.other) : WellFormed(summaries.other[i], built.other)

\* a report with a NaN return on equity and no prices, and a report of five
\* empty groups, both rendered
C9_Witness ==
    /\ Computed
    /\ Len(summaries.ratios) > 0
    /\ Len(summaries.other) > 0
    /\ Get(ratios.profitability_ratios, "roe") = NaN
    /\ Get(ratios.valuation_ratios, "pe_ratio") = NoneV
    /\ summaries.ratios[1][24] = "Return on Equity (ROE): N/A"
    /\ summaries.ratios[1][14] = "P/E Ratio: N/A"
    /\ summaries.ratios[1][26] = "Gross Margin: 40.00%"
    /\ other = EmptyReport("MSFT")
    /\ summaries.other[1][8] = "52-Week Range: N/A"

\* C10: the texts a report is formatted to are all the same, whatever is
\* formatted in between, and formatting leaves the report as it was built.
C10_Idempotent ==
    /\ \A r \in {"ratios", "other"} :
           \A i, j \in 1..Len(summaries[r]) : summaries[r][i] = summaries[r][j]
    /\ pc = "computed" => ratios = built.ratios
    /\ other = built.other

\* a report with a price formatted twice and another report formatted too
C10_Witness ==
    /\ Computed
    /\ Len(summaries.ratios) = 2
    /\ Len(summaries.other) = 1
    /\ summaries.ratios[1][7] = "Current Price: $150.50"
    /\ summaries.ratios[2][7] = "Current Price: $150.50"
    /\ summaries.ratios[1][10] = "Market Cap: $2.00B"
    /\ summaries.ratios[1] # summaries.other[1]

LiquidityMetrics ==
    { [key |-> "current_ratio", table |-> "balance_sheet",
       needs |-> {"totalCurrentAssets", "totalCurrentLiabilities"},
       den |-> "totalCurrentLiabilities"],
      [key |-> "quick_ratio", table |-> "balance_sheet",
       needs |-> {"totalCurrentAssets", "inventory", "totalCurrentLiabilities"},
       den |-> "totalCurrentLiabilities"],
      [key |-> "debt_to_equity", table |-> "balance_sheet",
       needs |-> {"totalLiabilities", "totalStockholderEquity"},
       den |-> "totalStockholderEquity"],
      [key |-> "interest_coverage", table |-> "income_stmt",
       needs |-> {"operatingIncome", "interestExpense"},
       den |-> "interestExpense"] }

\* the ratio's own line items are in the most recent period, its
\* denominator is not zero
Computable(m) ==
    /\ \A row \in m.needs : InLatest(source[m.table], row)
    /\ Ne0(Column(source[m.table], 0)[m.den])

\* v * den = num, in float arithmetic
IsQuotient(v, num, den) ==
    IF IsNaN(num) \/ IsNaN(den) THEN IsNaN(v)
    ELSE IsNum(v) /\ v.n * den.n * num.d = num.n * v.d * den.d

\* C11: each liquidity ratio is in the report exactly when its own line
\* items are present in the most recent period with a nonzero denominator,
\* whatever the other ratios and the other table hold; interest coverage
\* needs the income statement alone and is operating income / |interest
\* expense|.
C11_LiquidityIndependent ==
    Computed =>
        LET l == ratios.liquidity_ratios
        IN  /\ \A m \in LiquidityMetrics : (m.key \in DOMAIN l) = Computable(m)
            /\ "interest_coverage" \in DOMAIN l =>
                   LET latest_is == Column(source.income_stmt, 0)
                   IN  /\ IsQuotient(l["interest_coverage"], latest_is["operatingIncome"],
                                     AbsV(latest_is["interestExpense"]))
                       /\ l["interest_coverage"].n * latest_is["operatingIncome"].n >= 0

\* the first of the fields that is present and not None, NoneV when none is
FirstPresent(info, fields) ==
    IF \E i \in 1..Len(fields) : Has(info, fields[i])
    THEN LET i == CHOOSE i \in 1..Len(fields) :
                      /\ Has(info, fields[i])
                      /\ \A j \in 1..(i - 1) : ~Has(info, fields[j])
         IN  info[fields[i]]
    ELSE NoneV

\* C12: current_price is the first non-absent of currentPrice,
\* regularMarketPrice and previousClose, a value of 0 included, and is
\* absent only when all three are.
C12_FirstPresentPrice ==
    Computed =>
        Get(ratios.price_metrics, "current_price")
            = FirstPresent(source.info,
                           <<"currentPrice", "regularMarketPrice", "previousClose">>)

====
